---- MODULE Spec2Model ----
(***************************************************************************)
(* Model of scripts/build_combined_csv.py: the reference parser, the row   *)
(* assembler, the writer and main's pipeline.                              *)
(*                                                                         *)
(* A string is a sequence of symbols, each standing for a fixed piece of   *)
(* text: " " is one blank, "//" the two slashes, ".csv" the extension,     *)
(* "additions" that word, and so on. No two sequences of the symbols used  *)
(* spell the same text, no other symbol begins with a slash, ends with     *)
(* ".csv" or holds white space, so s + t, strip, startswith and endswith   *)
(* on the sequences are those on the text. A CSV row is a sequence of      *)
(* strings (what csv.reader yields for one record; <<>> for a blank line)  *)
(* and a file is the sequence of its rows after the utf-8-sig codec has    *)
(* removed the file's leading BOM.                                         *)
(***************************************************************************)
EXTENDS Integers, Sequences, FiniteSets, TLC

VARIABLES
    fs,              \* path -> file content: the files that exist
    argv,            \* [text_dir, reference_combined, output]: main's arguments
    pc,              \* main's position
    output_columns,  \* main's local: the parsed header
    section_order,   \* main's local: the parsed section order
    rows,            \* main's local: the assembled rows (with their origin)
    warnings,        \* main's local: the warnings of the assembly
    run,             \* which invocation of the tool this is (1 or 2)
    fs0,             \* the file system when the current invocation started
    out1             \* what the first invocation left at the output path

vars == <<fs, argv, pc, output_columns, section_order, rows, warnings, run, fs0, out1>>

-----------------------------------------------------------------------------
(* Strings *)

EmptyStr == <<>>
BOM == "<U+FEFF>"                        \* the character U+FEFF
Whitespace == {" ", "\t", "\n", "\r"} \* what str.strip() removes

SECTION_MARKER_PREFIX == <<"//">>
DotCsv == <<".csv">>
KEY == <<"KEY">>
CURRENT_LANGUAGE_NAME == <<"CURRENT_LANGUAGE_NAME">>
CURRENT_LANGUAGE_SHIPPABLE == <<"CURRENT_LANGUAGE_SHIPPABLE">>
LANGUAGE_KEYS == {CURRENT_LANGUAGE_NAME, CURRENT_LANGUAGE_SHIPPABLE}
AdditionsCsv == <<"additions", ".csv">>
CombinedCsv == <<"combined", ".csv">>

RECURSIVE lstrip(_, _)
lstrip(s, chars) ==
    IF s # <<>> /\ Head(s) \in chars THEN lstrip(Tail(s), chars) ELSE s

RECURSIVE rstrip(_, _)
rstrip(s, chars) ==
    IF s # <<>> /\ s[Len(s)] \in chars
    THEN rstrip(SubSeq(s, 1, Len(s) - 1), chars)
    ELSE s

strip(s) == rstrip(lstrip(s, Whitespace), Whitespace)

startswith(s, prefix) ==
    Len(s) >= Len(prefix) /\ SubSeq(s, 1, Len(prefix)) = prefix

endswith(s, suffix) ==
    Len(s) >= Len(suffix) /\ SubSeq(s, Len(s) - Len(suffix) + 1, Len(s)) = suffix

\* Python's None, where a key or a value may be None
None == <<"<None>">>

\* x or ""
OrEmpty(x) == IF x = None THEN EmptyStr ELSE x

normalize_header(field) == lstrip(OrEmpty(field), {BOM})

-----------------------------------------------------------------------------
(* parse_reference_combined *)

IsMarkerCell(cell) ==
    LET first == strip(OrEmpty(cell))
    IN  startswith(first, SECTION_MARKER_PREFIX) /\ endswith(first, DotCsv)

MarkerFileName(cell) ==
    LET first == strip(OrEmpty(cell))
    IN  strip(SubSeq(first, Len(SECTION_MARKER_PREFIX) + 1, Len(first)))

RECURSIVE DedupOrder(_, _)
DedupOrder(body, seen) ==
    IF body = <<>> THEN <<>>
    ELSE LET row == Head(body)
         IN  IF row # <<>> /\ IsMarkerCell(row[1]) /\ MarkerFileName(row[1]) \notin seen
             THEN <<MarkerFileName(row[1])>>
                  \o DedupOrder(Tail(body), seen \cup {MarkerFileName(row[1])})
             ELSE DedupOrder(Tail(body), seen)

\* ScanOrder, were a name collected only the first time it occurs
ScanOrderOnce(body) == DedupOrder(body, {})

RECURSIVE ScanOrder(_)
ScanOrder(body) ==
    IF body = <<>> THEN <<>>
    ELSE LET row == Head(body)
         IN  IF row = <<>> THEN ScanOrder(Tail(body))
             ELSE IF IsMarkerCell(row[1])
                  THEN <<MarkerFileName(row[1])>> \o ScanOrder(Tail(body))
                  ELSE ScanOrder(Tail(body))

\* exit |-> "" on return, otherwise which SystemExit was raised
parse_reference_combined(file) ==
    IF file = <<>>
    THEN [exit |-> "reference_empty", header |-> <<>>, order |-> <<>>]
    ELSE LET header == [i \in 1..Len(Head(file)) |-> normalize_header(Head(file)[i])]
             order == ScanOrder(Tail(file))
         IN  IF order = <<>>
             THEN [exit |-> "no_section_order", header |-> <<>>, order |-> <<>>]
             ELSE [exit |-> "", header |-> header, order |-> order]

-----------------------------------------------------------------------------
(* Dict[str, str]: the items in insertion order, as <<key, value>> pairs *)

DictHas(d, k) == \E i \in 1..Len(d) : d[i][1] = k

DictGet(d, k, default) ==
    IF DictHas(d, k) THEN d[CHOOSE i \in 1..Len(d) : d[i][1] = k][2] ELSE default

\* d[k] = v: a key already present keeps its place
DictPut(d, k, v) ==
    IF DictHas(d, k)
    THEN [i \in 1..Len(d) |-> IF d[i][1] = k THEN <<k, v>> ELSE d[i]]
    ELSE Append(d, <<k, v>>)

-----------------------------------------------------------------------------
(* read_csv_rows: csv.DictReader and the BOM fix of its keys *)

RECURSIVE ZipDict(_, _, _, _)
\* dict(zip(fieldnames, row)), from position i on: a repeated name keeps the
\* place of its first occurrence and the value of its last
ZipDict(d, fieldnames, row, i) ==
    IF i > Len(fieldnames) \/ i > Len(row) THEN d
    ELSE ZipDict(DictPut(d, fieldnames[i], row[i]), fieldnames, row, i + 1)

RECURSIVE FillRest(_, _, _)
\* for key in fieldnames[lr:]: d[key] = restval (None)
FillRest(d, fieldnames, i) ==
    IF i > Len(fieldnames) THEN d
    ELSE FillRest(DictPut(d, fieldnames[i], None), fieldnames, i + 1)

RECURSIVE JoinRepr(_)
JoinRepr(cells) ==
    IF cells = <<>> THEN <<>>
    ELSE <<"'">> \o Head(cells) \o <<"'">>
         \o (IF Len(cells) > 1 THEN <<",", " ">> ELSE <<>>) \o JoinRepr(Tail(cells))

\* the cells beyond the header are kept as a list under the key None; the text
\* is what csv.writer writes for such a value, str(list)
ListStr(cells) == <<"[">> \o JoinRepr(cells) \o <<"]">>

\* One record of csv.DictReader
DictReaderRow(fieldnames, row) ==
    LET d == ZipDict(<<>>, fieldnames, row, 1)
        lf == Len(fieldnames)
        lr == Len(row)
    IN  IF lf < lr THEN DictPut(d, None, ListStr(SubSeq(row, lf + 1, lr)))
        ELSE IF lf > lr THEN FillRest(d, fieldnames, lr + 1)
        ELSE d

RECURSIVE FixKeys(_, _)
\* fixed[normalize_header(key)] = value if value is not None else ""
FixKeys(d, fixed) ==
    IF d = <<>> THEN fixed
    ELSE FixKeys(Tail(d),
                 DictPut(fixed, normalize_header(Head(d)[1]), OrEmpty(Head(d)[2])))

RECURSIVE ReadRows(_, _)
ReadRows(fieldnames, body) ==
    IF body = <<>> THEN <<>>
    ELSE IF Head(body) = <<>> THEN ReadRows(fieldnames, Tail(body))  \* blank line
    ELSE <<FixKeys(DictReaderRow(fieldnames, Head(body)), <<>>)>>
         \o ReadRows(fieldnames, Tail(body))

read_csv_rows(file) ==
    IF file = <<>> \/ Head(file) = <<>>
    THEN [fieldnames |-> <<>>, rows |-> <<>>]
    ELSE [fieldnames |-> [i \in 1..Len(Head(file)) |-> normalize_header(Head(file)[i])],
          rows |-> ReadRows(Head(file), Tail(file))]

\* to_output_row, were the cells taken by position instead of by column name
to_output_row_by_position(source_row, columns) ==
    [i \in 1..Len(columns) |-> IF i <= Len(source_row) THEN source_row[i][2] ELSE EmptyStr]

to_output_row(source_row, columns) ==
    [i \in 1..Len(columns) |-> DictGet(source_row, columns[i], EmptyStr)]

-----------------------------------------------------------------------------
(* The file system *)

\* os.path.join(text_dir, file_name): a path is <<directory, name>>
PathJoin(text_dir, file_name) == <<text_dir, file_name>>

\* os.path.isfile
isfile(files, path) == path \in DOMAIN files

\* os.path.isdir: the directories that exist
ExistingDirs == {"text", "official", "elsewhere"}
isdir(dir) == dir \in ExistingDirs

-----------------------------------------------------------------------------
(* build_combined_rows *)

\* One element of rows_out: the cells, the line of build_combined_rows that
\* appended it, the section it belongs to (0: the top of the file) and the
\* number of the source row it was built from (0: a structural row)
OutRow(cells, line, sec, src) == [cells |-> cells, line |-> line, sec |-> sec, src |-> src]

\* IsLanguageRow, were the key compared as it stands in the file
IsLanguageRowUntrimmed(row) == OrEmpty(DictGet(row, KEY, None)) \in LANGUAGE_KEYS

IsLanguageRow(row) == strip(OrEmpty(DictGet(row, KEY, None))) \in LANGUAGE_KEYS

BlankRow(columns) == [i \in 1..Len(columns) |-> EmptyStr]

\* MarkerRow, were the marker written without the blank after the slashes
MarkerRowNoBlank(columns, file_name) ==
    [i \in 1..Len(columns) |->
        IF i = 1 THEN SECTION_MARKER_PREFIX \o file_name ELSE EmptyStr]

\* MarkerRow, were the marker written without the slashes
MarkerRowNoPrefix(columns, file_name) ==
    [i \in 1..Len(columns) |-> IF i = 1 THEN file_name ELSE EmptyStr]

MarkerRow(columns, file_name) ==
    [i \in 1..Len(columns) |->
        IF i = 1 THEN SECTION_MARKER_PREFIX \o <<" ">> \o file_name ELSE EmptyStr]

RECURSIVE LanguageRows(_, _, _)
\* the loop over additions_rows, from row k on
LanguageRows(additions_rows, columns, k) ==
    IF k > Len(additions_rows) THEN <<>>
    ELSE (IF IsLanguageRow(additions_rows[k])
          THEN <<OutRow(to_output_row(additions_rows[k], columns), 75, 0, k)>>
          ELSE <<>>)
         \o LanguageRows(additions_rows, columns, k + 1)

\* SkipsRow, were the language rows of additions.csv not skipped
SkipsRowNever(file_name, row) == FALSE

\* whether the loop over source_rows skips the row
SkipsRow(file_name, row) == file_name = AdditionsCsv /\ IsLanguageRow(row)

RECURSIVE SectionRows(_, _, _, _, _)
\* the loop over source_rows, from row k on
SectionRows(file_name, source_rows, columns, index, k) ==
    IF k > Len(source_rows) THEN <<>>
    ELSE (IF SkipsRow(file_name, source_rows[k])
          THEN <<>>
          ELSE <<OutRow(to_output_row(source_rows[k], columns), 100, index, k)>>)
         \o SectionRows(file_name, source_rows, columns, index, k + 1)

\* SeparatorAfter, were a blank row appended after the last section too
SeparatorAfterEvery(index, order) == index <= Len(order)

\* whether a blank row follows section index (numbered from 1)
SeparatorAfter(index, order) == index < Len(order)

RECURSIVE Sections(_, _, _, _, _)
\* the loop over order, from section index on
Sections(files, text_dir, columns, order, index) ==
    IF index > Len(order)
    THEN [raised |-> "", rows |-> <<>>, warnings |-> <<>>]
    ELSE IF Len(columns) = 0
    THEN [raised |-> "IndexError", rows |-> <<>>, warnings |-> <<>>]  \* marker_row[0] = ...
    ELSE LET file_name == order[index]
             file_path == PathJoin(text_dir, file_name)
             marker == <<OutRow(MarkerRow(columns, file_name), 90, index, 0)>>
             data == IF isfile(files, file_path)
                     THEN SectionRows(file_name, read_csv_rows(files[file_path]).rows,
                                      columns, index, 1)
                     ELSE <<>>
             warn == IF isfile(files, file_path)
                     THEN <<>>
                     ELSE <<[kind |-> "missing_file", file |-> file_name]>>
             sep == IF SeparatorAfter(index, order)
                    THEN <<OutRow(BlankRow(columns), 104, index, 0)>>
                    ELSE <<>>
             rest == Sections(files, text_dir, columns, order, index + 1)
         IN  [raised |-> rest.raised,
              rows |-> marker \o data \o sep \o rest.rows,
              warnings |-> warn \o rest.warnings]

\* raised |-> "" on return, otherwise the exception that ended the call
build_combined_rows(files, text_dir, columns, order) ==
    LET additions_path == PathJoin(text_dir, AdditionsCsv)
        language == IF isfile(files, additions_path)
                    THEN LanguageRows(read_csv_rows(files[additions_path]).rows, columns, 1)
                    ELSE <<>>
        warn == IF Len(language) = 0
                THEN <<[kind |-> "no_language_rows", file |-> AdditionsCsv]>>
                ELSE <<>>
        sections == Sections(files, text_dir, columns, order, 1)
    IN  [raised |-> sections.raised,
         rows |-> language \o <<OutRow(BlankRow(columns), 82, 0, 0)>> \o sections.rows,
         warnings |-> warn \o sections.warnings]

\* the rows as main passes them on: the cells alone
Cells(rows_out) == [i \in 1..Len(rows_out) |-> rows_out[i].cells]

-----------------------------------------------------------------------------
(* write_combined *)

\* write_combined, were the file opened to append
write_combined_append(files, output_path, columns, rows_out) ==
    (output_path :> ((IF isfile(files, output_path) THEN files[output_path] ELSE <<>>)
                     \o <<columns>> \o rows_out)) @@ files

\* open(output_path, "w") and the two writes: the file is replaced
write_combined(files, output_path, columns, rows_out) ==
    (output_path :> (<<columns>> \o rows_out)) @@ files

-----------------------------------------------------------------------------
(* main *)

\* --output left at its default, ""
NoOutput == <<"", EmptyStr>>

\* main's output_path
OutputPath(args) ==
    IF args.output = NoOutput
    THEN PathJoin(args.text_dir, CombinedCsv)
    ELSE args.output

\* if not os.path.isdir(text_dir): raise SystemExit
CheckTextDir ==
    /\ pc = "start"
    /\ pc' = IF isdir(argv.text_dir) THEN "dir_ok" ELSE "aborted"
    /\ UNCHANGED <<fs, argv, output_columns, section_order, rows, warnings, run, fs0, out1>>

\* if not os.path.isfile(reference_path): raise SystemExit
CheckReference ==
    /\ pc = "dir_ok"
    /\ pc' = IF isfile(fs, argv.reference_combined) THEN "ref_ok" ELSE "aborted"
    /\ UNCHANGED <<fs, argv, output_columns, section_order, rows, warnings, run, fs0, out1>>

\* ParseReference, were the output file opened for writing before the parse
ParseReferenceOutputOpened ==
    /\ pc = "ref_ok"
    /\ LET parsed == parse_reference_combined(fs[argv.reference_combined])
       IN  /\ pc' = IF parsed.exit = "" THEN "parsed" ELSE "aborted"
           /\ output_columns' = parsed.header
           /\ section_order' = parsed.order
    /\ fs' = (OutputPath(argv) :> <<>>) @@ fs
    /\ UNCHANGED <<argv, rows, warnings, run, fs0, out1>>

\* output_columns, section_order = parse_reference_combined(reference_path)
ParseReference ==
    /\ pc = "ref_ok"
    /\ LET parsed == parse_reference_combined(fs[argv.reference_combined])
       IN  /\ pc' = IF parsed.exit = "" THEN "parsed" ELSE "aborted"
           /\ output_columns' = parsed.header
           /\ section_order' = parsed.order
    /\ UNCHANGED <<fs, argv, rows, warnings, run, fs0, out1>>

\* rows, warnings = build_combined_rows(text_dir, output_columns, section_order)
BuildRows ==
    /\ pc = "parsed"
    /\ LET built == build_combined_rows(fs, argv.text_dir, output_columns, section_order)
       IN  /\ pc' = IF built.raised = "" THEN "built" ELSE "aborted"
           /\ rows' = IF built.raised = "" THEN built.rows ELSE <<>>
           /\ warnings' = IF built.raised = "" THEN built.warnings ELSE <<>>
    /\ UNCHANGED <<fs, argv, output_columns, section_order, run, fs0, out1>>

\* write_combined(output_path, output_columns, rows)
WriteOutput ==
    /\ pc = "built"
    /\ fs' = write_combined(fs, OutputPath(argv), output_columns, Cells(rows))
    /\ pc' = "written"
    /\ UNCHANGED <<argv, output_columns, section_order, rows, warnings, run, fs0, out1>>

\* The tool is started again with the same arguments: a fresh process, the
\* file system as the first run left it
RunAgain ==
    /\ pc = "written"
    /\ run = 1
    /\ run' = 2
    /\ pc' = "start"
    /\ out1' = fs[OutputPath(argv)]
    /\ fs0' = fs
    /\ output_columns' = <<>>
    /\ section_order' = <<>>
    /\ rows' = <<>>
    /\ warnings' = <<>>
    /\ UNCHANGED <<fs, argv>>

-----------------------------------------------------------------------------
(* Inputs *)

SeqsUpTo(S, n) == UNION {[1..k -> S] : k \in 0..n}

ACsv == <<"a", ".csv">>
BCsv == <<"b", ".csv">>
EN == <<"EN">>
ZH == <<"ZH">>
Foo == <<"foo">>
Bar == <<"bar">>
X == <<"x">>
Y == <<"y">>

\* "// " + file_name, as build_combined_rows writes a marker
Marker(file_name) == SECTION_MARKER_PREFIX \o <<" ">> \o file_name

RefPath == <<"official", CombinedCsv>>
TextDir == "text"

\* The longest reference body and the rows it is made of
MaxRefRows == 3

RefRowPool ==
    { <<>>,                                          \* a blank line
      <<Marker(ACsv)>>,                              \* // a.csv
      <<SECTION_MARKER_PREFIX \o BCsv, X>>,          \* //b.csv,x
      <<<<" ">> \o Marker(ACsv) \o <<" ">>, EmptyStr>>, \* padded on both sides
      <<ACsv>>,                                      \* no prefix
      <<SECTION_MARKER_PREFIX \o <<" ", "a">>>>,     \* no suffix
      <<EmptyStr, Marker(ACsv)>>,                    \* a marker, but not in the first cell
      <<SECTION_MARKER_PREFIX \o DotCsv \o <<" ">>>> \* //.csv
    }

RefHeaderPool == { <<>>, <<KEY, EN>>, <<<<BOM>> \o KEY, EN, EN>> }

InitParse ==
    /\ \E header \in RefHeaderPool, body \in SeqsUpTo(RefRowPool, MaxRefRows) :
          fs = (RefPath :> (<<header>> \o body))
    /\ argv = [text_dir |-> TextDir, reference_combined |-> RefPath, output |-> NoOutput]
    /\ pc = "ref_ok"
    /\ output_columns = <<>>
    /\ section_order = <<>>
    /\ rows = <<>>
    /\ warnings = <<>>
    /\ run = 1
    /\ fs0 = fs
    /\ out1 = <<>>

SpecParse == InitParse /\ [][ParseReference]_vars

-----------------------------------------------------------------------------
(* C1 *)

\* The reference file the run reads
Reference == fs[argv.reference_combined]

\* The rows after the header whose trimmed first cell starts with // and ends
\* with .csv
MarkerRowNumbers ==
    { j \in 2..Len(Reference) :
        /\ Len(Reference[j]) > 0
        /\ LET first == strip(Reference[j][1])
           IN  Len(first) >= 2 /\ first[1] = "//" /\ first[Len(first)] = ".csv" }

\* The row number of the i-th such row
NthMarkerRow(i) ==
    CHOOSE j \in MarkerRowNumbers : Cardinality({k \in MarkerRowNumbers : k <= j}) = i

\* The name a marker row carries: what follows the two slashes, trimmed
NameOfRow(j) ==
    LET first == strip(Reference[j][1]) IN strip(Tail(first))

\* C1: for a reference with at least one section-marker row the parser returns,
\* with as many columns as the reference header has cells and with one name per
\* marker row: the i-th name is the name of the i-th marker row, repeats kept.
C1_ParseOrder ==
    (pc \in {"parsed", "aborted"} /\ MarkerRowNumbers # {}) =>
        /\ pc = "parsed"
        /\ Len(output_columns) = Len(Reference[1])
        /\ Len(section_order) = Cardinality(MarkerRowNumbers)
        /\ \A i \in 1..Len(section_order) : section_order[i] = NameOfRow(NthMarkerRow(i))

\* A parse of three marker rows, two of them naming the same file
C1_Witness ==
    /\ pc = "parsed"
    /\ Len(section_order) = 3
    /\ section_order[1] = section_order[3]
    /\ section_order[1] # section_order[2]
    /\ Len(output_columns) = 3

-----------------------------------------------------------------------------
(* The assembler's inputs *)

\* A reference file that parses to the columns and the section order
ReferenceFor(columns, order) ==
    <<columns>> \o [i \in 1..Len(order) |-> <<Marker(order[i])>>]

MaxSections == 2
MaxRows == 2

ColumnsPool ==
    { <<>>,                 \* the reference's first line is blank
      <<KEY, EN>>,
      <<EN, KEY, ZH>>,
      <<EN>>,               \* no KEY column
      <<KEY, EmptyStr>> }   \* a column without a name

\* b.csv is never in the directory
SectionNamePool == {ACsv, AdditionsCsv, BCsv}

OrderPool == SeqsUpTo(SectionNamePool, MaxSections) \ {<<>>}

Padded(s) == <<" ">> \o s \o <<" ">>

AdditionsRowPool ==
    { <<CURRENT_LANGUAGE_NAME, X>>,
      <<Padded(CURRENT_LANGUAGE_SHIPPABLE), Y, Bar>>,  \* one cell more than the header
      <<Foo, Y>> }

\* additions.csv, when it is there: empty, or a header and rows
AdditionsPool ==
    { <<<<KEY, EN>>>> \o body : body \in SeqsUpTo(AdditionsRowPool, MaxRows) }
    \cup { <<>>,
           << <<KEY, EN>>, <<Bar>>, <<CURRENT_LANGUAGE_NAME>> >>,  \* rows short of a cell
           << <<<<BOM>> \o KEY, ZH, EN>>, <<CURRENT_LANGUAGE_NAME, X, Y>>, <<>>, <<Foo, X, Y>> >>,
           << <<EN, ZH>>, <<X, Y>> >> }

ACsvPool ==
    { << <<KEY, EN>>, <<CURRENT_LANGUAGE_NAME, Y>>, <<Foo, X>> >>,
      << <<KEY, ZH>>, <<Bar, X>>, <<>>, <<EmptyStr, EmptyStr>> >> }

\* In place of a content: the file is not there
Absent == << << <<"absent">> >> >>

\* The files of the text directory: a.csv and additions.csv, each absent or
\* with a content of its pool
DirFiles(a, additions) ==
    [p \in ( (IF a = Absent THEN {} ELSE {PathJoin(TextDir, ACsv)})
             \cup (IF additions = Absent THEN {} ELSE {PathJoin(TextDir, AdditionsCsv)}) )
       |-> IF p = PathJoin(TextDir, ACsv) THEN a ELSE additions]

InitBuild ==
    /\ \E columns \in ColumnsPool, order \in OrderPool,
          a \in ACsvPool \cup {Absent}, additions \in AdditionsPool \cup {Absent} :
          /\ output_columns = columns
          /\ section_order = order
          /\ fs = (RefPath :> ReferenceFor(columns, order)) @@ DirFiles(a, additions)
    /\ argv = [text_dir |-> TextDir, reference_combined |-> RefPath, output |-> NoOutput]
    /\ pc = "parsed"
    /\ rows = <<>>
    /\ warnings = <<>>
    /\ run = 1
    /\ fs0 = fs
    /\ out1 = <<>>

SpecBuild == InitBuild /\ [][BuildRows]_vars

-----------------------------------------------------------------------------
(* What the claims about the assembled rows speak of *)

Positions == 1..Len(rows)

AllEmpty(cells) == \A i \in 1..Len(cells) : cells[i] = EmptyStr

\* The source rows of a file of the text directory, none if it is missing
FileRows(file_name) ==
    IF isfile(fs, PathJoin(argv.text_dir, file_name))
    THEN read_csv_rows(fs[PathJoin(argv.text_dir, file_name)]).rows
    ELSE <<>>

\* A source row whose KEY, trimmed as the code trims it, is a language key
HasLanguageKey(r) ==
    \E j \in 1..Len(r) : r[j][1] = KEY /\ strip(r[j][2]) \in LANGUAGE_KEYS

\* An output row whose cell under a KEY column is a language key
CarriesLanguageKey(cells) ==
    \E i \in 1..Len(output_columns) :
        output_columns[i] = KEY /\ strip(cells[i]) \in LANGUAGE_KEYS

\* The file an output row was built from
OriginFile(p) ==
    IF rows[p].line = 75 THEN AdditionsCsv
    ELSE IF rows[p].line = 100 THEN section_order[rows[p].sec]
    ELSE EmptyStr

Occurrences(file_name) ==
    Cardinality({i \in 1..Len(section_order) : section_order[i] = file_name})

\* The position of the marker row of section i
MarkerAt(i) == CHOOSE p \in Positions : rows[p].line = 90 /\ rows[p].sec = i

\* The position of the blank row under the language rows
TopBlank == CHOOSE p \in Positions : rows[p].line = 82

-----------------------------------------------------------------------------
(* C4 *)

\* C4: the rows returned for n >= 1 sections are the language rows, one
\* all-empty row, then per position i of the section order one marker row
\* ("// " + name_i, the other cells empty), that section's data rows in source
\* order, and one all-empty separator row exactly when i < n: n marker rows,
\* n - 1 separators, none after the last section.
C4_Layout ==
    pc = "built" =>
      LET n == Len(section_order) IN
        /\ n >= 1
        /\ \A i \in 1..n : Cardinality({p \in Positions : rows[p].line = 90 /\ rows[p].sec = i}) = 1
        /\ Cardinality({p \in Positions : rows[p].line = 90}) = n
        /\ Cardinality({p \in Positions : rows[p].line = 104}) = n - 1
        /\ Cardinality({p \in Positions : rows[p].line = 82}) = 1
        /\ TopBlank = MarkerAt(1) - 1
        /\ AllEmpty(rows[TopBlank].cells)
        /\ \A p \in 1..(TopBlank - 1) : rows[p].line = 75
        /\ \A i \in 1..n :
             LET m == rows[MarkerAt(i)].cells
                 last == IF i < n THEN MarkerAt(i + 1) - 2 ELSE Len(rows)
             IN  /\ m[1] = <<"//", " ">> \o section_order[i]
                 /\ \A c \in 2..Len(m) : m[c] = EmptyStr
                 /\ last >= MarkerAt(i)
                 /\ \A p \in (MarkerAt(i) + 1)..last :
                       /\ rows[p].line = 100 /\ rows[p].sec = i
                       /\ p > MarkerAt(i) + 1 => rows[p - 1].src < rows[p].src
                 /\ i < n => /\ rows[last + 1].line = 104
                             /\ AllEmpty(rows[last + 1].cells)

\* Two sections, both with data rows, under a language row
C4_Witness ==
    /\ pc = "built"
    /\ Len(section_order) = 2
    /\ rows[1].line = 75
    /\ \E p, q \in Positions : /\ rows[p].line = 100 /\ rows[p].sec = 1
                               /\ rows[q].line = 100 /\ rows[q].sec = 2

-----------------------------------------------------------------------------
(* C5 *)

-----------------------------------------------------------------------------
(* C6 *)

\* The first all-empty row of the output
FirstBlankRow == CHOOSE p \in Positions :
    AllEmpty(rows[p].cells) /\ \A q \in 1..(p - 1) : ~AllEmpty(rows[q].cells)

\* An output row that the reference parser would read as a section marker
LooksLikeMarker(cells) == Len(cells) > 0 /\ IsMarkerCell(cells[1])

\* An output row at the top of the file that is the projection of a row of
\* additions.csv
TopLanguageRow(p) ==
    /\ p < FirstBlankRow
    /\ \A q \in Positions : rows[q].line = 90 => p < q
    /\ \E k \in 1..Len(FileRows(AdditionsCsv)) :
          rows[p].cells = to_output_row(FileRows(AdditionsCsv)[k], output_columns)

\* C6 as stated: every output row whose KEY cell is a language key is a
\* projection of a row of additions.csv and lies before the first blank row and
\* before every marker, whatever the other source files hold.
C6_LanguageRowsOnlyOnTop ==
    pc = "built" =>
      \A p \in Positions : CarriesLanguageKey(rows[p].cells) => TopLanguageRow(p)

\* C6, amended: an output row whose KEY cell is a language key is either such a
\* top row, or a data row of a section whose file is not additions.csv; the
\* rows above the blank row that precedes the sections are all built from rows
\* of additions.csv with a language key.
C6_LanguageRowsFromAdditions ==
    pc = "built" =>
      /\ \A p \in Positions : CarriesLanguageKey(rows[p].cells) =>
            \/ TopLanguageRow(p)
            \/ /\ rows[p].line = 100
               /\ section_order[rows[p].sec] # AdditionsCsv
      /\ \A p \in 1..(TopBlank - 1) :
            /\ rows[p].src \in 1..Len(FileRows(AdditionsCsv))
            /\ HasLanguageKey(FileRows(AdditionsCsv)[rows[p].src])
            /\ rows[p].cells = to_output_row(FileRows(AdditionsCsv)[rows[p].src], output_columns)

\* A language row on top, additions.csv as a section, and a row of a.csv with a
\* language key in the section of a.csv
C6_Witness ==
    /\ pc = "built"
    /\ Occurrences(AdditionsCsv) >= 1
    /\ \E p, q \in Positions :
          /\ rows[p].line = 75 /\ CarriesLanguageKey(rows[p].cells)
          /\ rows[q].line = 100 /\ CarriesLanguageKey(rows[q].cells)

-----------------------------------------------------------------------------
(* C7 *)

MissingSections ==
    {i \in 1..Len(section_order) : ~isfile(fs, PathJoin(argv.text_dir, section_order[i]))}

\* What the claim says of a call that returned
MissingInputsAreWarnings ==
    /\ \A i \in MissingSections :
          /\ \E p \in Positions : rows[p].line = 90 /\ rows[p].sec = i
                                  /\ rows[p].cells[1] = <<"//", " ">> \o section_order[i]
          /\ ~\E p \in Positions : rows[p].line = 100 /\ rows[p].sec = i
    /\ \A f \in {section_order[i] : i \in 1..Len(section_order)} :
          Cardinality({w \in 1..Len(warnings) :
                          warnings[w] = [kind |-> "missing_file", file |-> f]})
            = Cardinality({i \in MissingSections : section_order[i] = f})
    /\ LET none == ~\E p \in Positions : rows[p].line = 75
           lang == {w \in 1..Len(warnings) : warnings[w].kind = "no_language_rows"}
       IN  /\ Cardinality(lang) = IF none THEN 1 ELSE 0
           /\ none => AllEmpty(rows[1].cells) /\ rows[1].line = 82
           /\ none <=> \A k \in 1..Len(FileRows(AdditionsCsv)) :
                          ~HasLanguageKey(FileRows(AdditionsCsv)[k])
           /\ Len(warnings) = Cardinality(lang) + Cardinality(MissingSections)

\* C7: whichever section files are present, build_combined_rows returns; each
\* missing file leaves its marker row with no data rows and one warning naming
\* it; there is one language-row warning exactly when no language row was
\* emitted, and then the output starts with the blank row; no other warnings.
C7_MissingInputsNeverAbort ==
    pc \in {"built", "aborted"} => (pc = "built" /\ MissingInputsAreWarnings)

\* The same with a column list that is not empty (not one of the claims)
MissingInputsWithColumns ==
    (pc \in {"built", "aborted"} /\ Len(output_columns) > 0) =>
        (pc = "built" /\ MissingInputsAreWarnings)

-----------------------------------------------------------------------------
(* C8 *)

\* C8: every returned row has as many cells as there are output columns; the
\* cell of a data or language row under output column c is the source row's
\* value for c if the source row has c and empty otherwise, so that a value
\* under a column the output does not have goes nowhere.
C8_Projection ==
    pc = "built" =>
      \A p \in Positions :
        /\ Len(rows[p].cells) = Len(output_columns)
        /\ rows[p].line \in {75, 100} =>
             LET r == FileRows(OriginFile(p))[rows[p].src] IN
               \A i \in 1..Len(output_columns) :
                  IF \E j \in 1..Len(r) : r[j][1] = output_columns[i]
                  THEN \E j \in 1..Len(r) : r[j][1] = output_columns[i]
                                            /\ rows[p].cells[i] = r[j][2]
                  ELSE rows[p].cells[i] = EmptyStr

\* A data row whose source has a column the output lacks, with a value, and
\* lacks a column the output has
C8_Witness ==
    /\ pc = "built"
    /\ \E p \in Positions :
          /\ rows[p].line = 100
          /\ LET r == FileRows(OriginFile(p))[rows[p].src] IN
               /\ \E j \in 1..Len(r) : /\ r[j][2] # EmptyStr
                                       /\ \A i \in 1..Len(output_columns) :
                                             output_columns[i] # r[j][1]
               /\ \E i \in 1..Len(output_columns) :
                     \A j \in 1..Len(r) : r[j][1] # output_columns[i]

-----------------------------------------------------------------------------
(* Runs of the tool *)

Header == <<KEY, EN>>
OutPath == <<"elsewhere", <<"out", ".csv">>>>

\* The reference at the official path: missing, empty, without markers, with a
\* blank first line, or with sections
OfficialPool ==
    { Absent,
      <<>>,
      << Header, <<Foo, X>> >>,
      << <<>>, <<Marker(ACsv)>> >>,
      << Header, <<Marker(ACsv), EmptyStr>> >>,
      << Header, <<Marker(ACsv), EmptyStr>>, <<EmptyStr, EmptyStr>>,
         <<Marker(AdditionsCsv), EmptyStr>> >>,
      << Header, <<Marker(ACsv)>>, <<Marker(CombinedCsv)>> >> }

\* A combined.csv already in the text directory
OldCombinedPool ==
    { Absent, << Header, <<Marker(ACsv), EmptyStr>>, <<Foo, X>> >> }

RunACsvPool ==
    { Absent,
      << Header, <<Foo, X>> >>,
      << Header, <<Marker(BCsv), X>> >> }    \* a key that reads like a marker

RunAdditionsPool ==
    { Absent, << Header, <<CURRENT_LANGUAGE_NAME, X>>, <<Bar, Y>> >> }

OldOutputPool == { Absent, << <<X>> >> }

\* The files that exist: each path with a content that is not Absent
Files(contents) ==
    [p \in {q \in DOMAIN contents : contents[q] # Absent} |-> contents[p]]

Init ==
    /\ \E official \in OfficialPool, combined \in OldCombinedPool, a \in RunACsvPool,
          additions \in RunAdditionsPool, old \in OldOutputPool :
          fs = Files( (RefPath :> official)
                      @@ (PathJoin(TextDir, CombinedCsv) :> combined)
                      @@ (PathJoin(TextDir, ACsv) :> a)
                      @@ (PathJoin(TextDir, AdditionsCsv) :> additions)
                      @@ (OutPath :> old) )
    /\ \E dir \in {TextDir, "nowhere"},
          reference \in {RefPath, PathJoin(TextDir, CombinedCsv)},
          output \in {NoOutput, OutPath, RefPath} :
          argv = [text_dir |-> dir, reference_combined |-> reference, output |-> output]
    /\ pc = "start"
    /\ output_columns = <<>>
    /\ section_order = <<>>
    /\ rows = <<>>
    /\ warnings = <<>>
    /\ run = 1
    /\ fs0 = fs
    /\ out1 = <<>>

Next ==
    \/ CheckTextDir
    \/ CheckReference
    \/ ParseReference
    \/ BuildRows
    \/ WriteOutput
    \/ RunAgain

Spec == Init /\ [][Next]_vars

-----------------------------------------------------------------------------
(* C3 *)

\* The files a run reads
ReadPaths ==
    {argv.reference_combined, PathJoin(argv.text_dir, AdditionsCsv)}
    \cup {PathJoin(argv.text_dir, section_order[i]) : i \in 1..Len(section_order)}

\* C3 as stated: a second run with the same arguments writes what the first
\* run wrote, whatever the reference and the text directory hold and wherever
\* the output goes.
C3_SecondRunSameOutput ==
    (pc = "written" /\ run = 2) => fs[OutputPath(argv)] = out1

\* C3, amended: a second run with the same arguments writes what the first run
\* wrote, provided the output path is none of the files the run reads (the
\* reference, additions.csv, the files the section markers name).
C3_SecondRunSameOutputUnlessRead ==
    (pc = "written" /\ run = 2 /\ OutputPath(argv) \notin ReadPaths) =>
        fs[OutputPath(argv)] = out1

\* A second run that wrote to the default path, which it did not read, over the
\* output of the first
C3_Witness ==
    /\ pc = "written"
    /\ run = 2
    /\ argv.output = NoOutput
    /\ OutputPath(argv) \notin ReadPaths
    /\ Len(rows) >= 5
    /\ out1 # <<>>

-----------------------------------------------------------------------------
(* C9 *)

\* The reference the run started with has no section marker
NoMarkerRow(file) ==
    \A j \in 2..Len(file) : Len(file[j]) = 0 \/ ~IsMarkerCell(file[j][1])

\* One of the four fatal conditions holds of the run's inputs
Fatal ==
    \/ ~isdir(argv.text_dir)
    \/ ~isfile(fs0, argv.reference_combined)
    \/ fs0[argv.reference_combined] = <<>>
    \/ NoMarkerRow(fs0[argv.reference_combined])

\* C9: under each of the four fatal conditions the run aborts, before the parse
\* has returned, and the files are as they were; in every run nothing is
\* written before the write step, which follows the parse and the assembly, so
\* an aborted run leaves the output file as it was, and a run that wrote
\* changed the output file alone.
C9_FatalWritesNothing ==
    /\ pc # "written" => fs = fs0
    /\ Fatal => pc \in {"start", "dir_ok", "ref_ok", "aborted"}
    /\ (Fatal /\ ~ENABLED Next) => pc = "aborted"
    /\ pc = "written" =>
          /\ DOMAIN fs = DOMAIN fs0 \cup {OutputPath(argv)}
          /\ \A q \in DOMAIN fs0 : q # OutputPath(argv) => fs[q] = fs0[q]

\* A run that aborted for want of a section marker, the output file being there
C9_Witness ==
    /\ pc = "aborted"
    /\ isdir(argv.text_dir)
    /\ isfile(fs0, argv.reference_combined)
    /\ fs0[argv.reference_combined] # <<>>
    /\ NoMarkerRow(fs0[argv.reference_combined])
    /\ isfile(fs, OutputPath(argv))

-----------------------------------------------------------------------------
(* C10 *)

\* What parse_reference_combined returns for the file just written
Reparsed == parse_reference_combined(fs[OutputPath(argv)])

\* C10 as stated: the written file parses to the column list and the section
\* order it was written from, whatever the source files hold.
C10_OutputIsItsOwnReference ==
    pc = "written" =>
        /\ Reparsed.exit = ""
        /\ Reparsed.header = output_columns
        /\ Reparsed.order = section_order

\* C10, amended: it does so provided no language or data row copied to the
\* output has a first cell that, trimmed, starts with // and ends with .csv.
C10_OutputIsItsOwnReferenceUnlessMarkerData ==
    (pc = "written" /\ \A p \in Positions :
                          rows[p].line \in {75, 100} => ~LooksLikeMarker(rows[p].cells)) =>
        /\ Reparsed.exit = ""
        /\ Reparsed.header = output_columns
        /\ Reparsed.order = section_order

\* A written file of two sections with language and data rows, none of which
\* reads like a marker
C10_Witness ==
    /\ pc = "written"
    /\ Len(section_order) = 2
    /\ \E p, q \in Positions : rows[p].line = 75 /\ rows[q].line = 100
    /\ \A p \in Positions : rows[p].line \in {75, 100} => ~LooksLikeMarker(rows[p].cells)

-----------------------------------------------------------------------------
(* C2: a combined file, split and merged again *)

MaxSplitRows == 1

\* The parts of a combined file: the language rows on top, and per section its
\* name and its data rows
SplitHeaderPool == { <<KEY, EN>>, <<KEY, EN, EN>> }

\* A row of the header's width: a third cell, if there is one, holds y
Wide(header, key, value) ==
    [i \in 1..Len(header) |-> IF i = 1 THEN key ELSE IF i = 2 THEN value ELSE Y]

TopPool(header) ==
    { <<>>,
      <<Wide(header, CURRENT_LANGUAGE_NAME, Y), Wide(header, CURRENT_LANGUAGE_SHIPPABLE, X)>> }

DataRowPool(header) ==
    { Wide(header, Foo, X), Wide(header, CURRENT_LANGUAGE_NAME, Y) }

SectionPool(header) ==
    [name : {ACsv, AdditionsCsv}, data : SeqsUpTo(DataRowPool(header), MaxSplitRows)]

\* How the combined file writes its markers: "// name" or "//name"
MarkerStylePool == { <<"//", " ">>, <<"//">> }

RECURSIVE SectionBlocks(_, _, _, _)
SectionBlocks(header, sections, style, i) ==
    IF i > Len(sections) THEN <<>>
    ELSE <<[c \in 1..Len(header) |-> IF c = 1 THEN style \o sections[i].name ELSE EmptyStr]>>
         \o sections[i].data
         \o (IF i < Len(sections) THEN <<BlankRow(header)>> ELSE <<>>)
         \o SectionBlocks(header, sections, style, i + 1)

\* The combined file: header, language rows, one blank row, then per section a
\* marker row, its data rows and a blank separator between sections
CombinedFile(header, top, sections, style) ==
    <<header>> \o top \o <<BlankRow(header)>> \o SectionBlocks(header, sections, style, 1)

\* The data rows stored in the file of a name: those of the last section that
\* carries the name
StoredData(sections, name) ==
    LET with == {i \in 1..Len(sections) : sections[i].name = name}
    IN  IF with = {} THEN <<>>
        ELSE sections[CHOOSE i \in with : \A j \in with : j <= i].data

\* The split files: each section's data rows in the file its marker names, the
\* language rows in additions.csv
SplitFiles(header, top, sections) ==
    [p \in {PathJoin(TextDir, sections[i].name) : i \in 1..Len(sections)}
           \cup (IF top = <<>> THEN {} ELSE {PathJoin(TextDir, AdditionsCsv)})
       |-> <<header>>
           \o (IF p = PathJoin(TextDir, AdditionsCsv) THEN top ELSE <<>>)
           \o StoredData(sections, p[2])]

InitSplit ==
    /\ \E header \in SplitHeaderPool, style \in MarkerStylePool :
         \E top \in TopPool(header),
            sections \in SeqsUpTo(SectionPool(header), MaxSections) \ {<<>>} :
            fs = (RefPath :> CombinedFile(header, top, sections, style))
                 @@ SplitFiles(header, top, sections)
    /\ argv = [text_dir |-> TextDir, reference_combined |-> RefPath, output |-> OutPath]
    /\ pc = "start"
    /\ output_columns = <<>>
    /\ section_order = <<>>
    /\ rows = <<>>
    /\ warnings = <<>>
    /\ run = 1
    /\ fs0 = fs
    /\ out1 = <<>>

NextOnce ==
    \/ CheckTextDir
    \/ CheckReference
    \/ ParseReference
    \/ BuildRows
    \/ WriteOutput

SpecSplit == InitSplit /\ [][NextOnce]_vars

\* C2 as stated: the merge of the split files, with the combined file as the
\* reference, writes the header and the rows of the combined file.
C2_RoundTrip ==
    pc \in {"written", "aborted"} =>
        (pc = "written" /\ fs[OutputPath(argv)] = Reference)

\* The name of the section a row of the reference lies in
SectionOfRow(j) ==
    NameOfRow(CHOOSE m \in MarkerRowNumbers :
                 m <= j /\ \A k \in MarkerRowNumbers : k <= j => k <= m)

\* What the round trip needs of the combined file beyond its layout: a section,
\* column names that differ from each other, markers written "// name",
\* section names that differ from each other, and no row with a language key
\* among the data rows of the additions.csv section
Canonical ==
    /\ MarkerRowNumbers # {}
    /\ \A i, j \in 1..Len(Reference[1]) : i # j => Reference[1][i] # Reference[1][j]
    /\ \A j \in MarkerRowNumbers : Reference[j][1] = <<"//", " ">> \o NameOfRow(j)
    /\ \A j, k \in MarkerRowNumbers : j # k => NameOfRow(j) # NameOfRow(k)
    /\ \A j \in 2..Len(Reference) :
          (/\ \E m \in MarkerRowNumbers : m < j
           /\ j \notin MarkerRowNumbers
           /\ SectionOfRow(j) = AdditionsCsv)
          => ~\E i \in 1..Len(Reference[1]) :
                 Reference[1][i] = KEY /\ strip(Reference[j][i]) \in LANGUAGE_KEYS

\* C2, amended: the merge reproduces the combined file when, besides, the file
\* has a section, the column names of the header are distinct, every marker is
\* written "// name", no two sections have the same name and no data row of
\* the additions.csv section has a language key.
C2_RoundTripOfCanonical ==
    (pc \in {"written", "aborted"} /\ Canonical) =>
        (pc = "written" /\ fs[OutputPath(argv)] = Reference)

\* The merge of a canonical file with language rows and two sections, one of
\* them additions.csv, both with data rows
C2_Witness ==
    /\ pc = "written"
    /\ Canonical
    /\ Len(section_order) = 2
    /\ Occurrences(AdditionsCsv) = 1
    /\ rows[1].line = 75
    /\ \E p, q \in Positions : /\ rows[p].line = 100 /\ rows[p].sec = 1
                               /\ rows[q].line = 100 /\ rows[q].sec = 2

====
